---- MODULE Spec2Model ----
(***************************************************************************)
(* ppd-rs: the `ppd` command-line client of the Power Profiles Daemon.     *)
(*                                                                         *)
(* One run of main() (src/src/main.rs) against the remote service reached  *)
(* through the proxy declared in src/src/lib.rs.  The remote service and   *)
(* the other actors on the bus are the environment: every proxy call may   *)
(* fail with a transport error, and another actor may change the remote    *)
(* state between two calls of the run.                                     *)
(***************************************************************************)
EXTENDS Naturals, Sequences, FiniteSets, TLC

VARIABLES
    cmd,                \* cli.command, the parsed command line (main.rs:24)
    pc,                 \* position of the run in main() and the command function
    result,             \* what main() returns: NoResult while running
    out,                \* lines written to standard output, in order
    calls,              \* proxy calls issued so far, in order
    remoteActive,       \* the service's ActiveProfile property
    remoteProfiles,     \* the service's Profiles property
    remoteDegraded,     \* the service's PerformanceDegraded property
    remoteBatteryAware, \* the service's BatteryAware property
    remoteActions,      \* the service's ActionsInfo property
    changes,            \* switches of the active profile by other actors so far
    removals,           \* profiles the service has stopped advertising so far
    switched,           \* the active profiles others set since watch() read it
    current,            \* list(): `current`; watch(): the profile read at start
    profiles,           \* list(): `profiles`
    degraded,           \* list(): `degraded`
    subscribed,         \* watch(): `signal` exists
    signal,             \* watch(): changes queued in `signal`, oldest first
    closed,             \* watch(): the stream behind `signal` has ended
    p,                  \* watch(): `p`, the element `signal` yielded last
    delivered,          \* watch(): every element `signal` has yielded, in order
    convIn,             \* conversions: the value a conversion starts from
    convVal,            \* conversions: the Result try_from returned
    convOut,            \* conversions: the string Display wrote
    convBack            \* conversions: try_from of the string Display wrote

vars == <<cmd, pc, result, out, calls, remoteActive, remoteProfiles,
          remoteDegraded, remoteBatteryAware, remoteActions, changes, removals,
          switched, current, profiles, degraded, subscribed, signal, closed, p,
          delivered, convIn, convVal, convOut, convBack>>

remoteVars == <<remoteActive, remoteProfiles, remoteDegraded,
                remoteBatteryAware, remoteActions>>
extVars == <<changes, removals, switched>>
listVars == <<current, profiles, degraded>>
watchVars == <<subscribed, signal, closed, p, delivered>>
convVars == <<convIn, convVal, convOut, convBack>>

-----------------------------------------------------------------------------
(* Bounds of the model. *)

\* Longest profile list the service returns.
MaxProfiles == 2
\* Number of times other actors switch the active profile during one run.
MaxChanges == 2
\* Number of profiles the service stops advertising during one run.
MaxRemovals == 1
\* Longest action list the service returns.
MaxActions == 1

-----------------------------------------------------------------------------
(* Option<T>, Result<T, E> and sequence helpers. *)

None == <<>>
Some(x) == <<x>>

RECURSIVE Reverse(_)
Reverse(s) == IF s = <<>> THEN <<>> ELSE Append(Reverse(Tail(s)), Head(s))

SeqsUpTo(S, n) == UNION {[1..k -> S] : k \in 0..n}

RemoveAt(s, i) == [j \in 1..(Len(s) - 1) |-> IF j < i THEN s[j] ELSE s[j + 1]]

-----------------------------------------------------------------------------
(* lib.rs: enum PowerProfile and its string conversions. *)

PowerProfile == {"PowerSaver", "Balanced", "Performance"}

\* impl Display for PowerProfile
Display(self) ==
    CASE self = "Balanced" -> "balanced"
      [] self = "PowerSaver" -> "power-saver"
      [] self = "Performance" -> "performance"

Ok(v) == [ok |-> TRUE, val |-> v]
Err == [ok |-> FALSE, val |-> "()"]

\* Variant: the names are also accepted without their hyphen.
try_from_unhyphenated(value) ==
    CASE value = "balanced" -> Ok("Balanced")
      [] value \in {"power-saver", "powersaver"} -> Ok("PowerSaver")
      [] value = "performance" -> Ok("Performance")
      [] OTHER -> Err

\* impl TryFrom<String> for PowerProfile
try_from(value) ==
    CASE value = "balanced" -> Ok("Balanced")
      [] value = "power-saver" -> Ok("PowerSaver")
      [] value = "performance" -> Ok("Performance")
      [] OTHER -> Err


-----------------------------------------------------------------------------
(* lib.rs: the records of the wire schema. *)

DriverNames == {"multiple"}
CpuDrivers == {None, Some("intel_pstate")}
PlatformDrivers == {None, Some("platform_profile")}

\* The drivers a profile is backed by: cpu_driver and platform_driver are
\* independent Option<String> fields.
DriverShapes == CpuDrivers \X PlatformDrivers

\* struct Profile
Profile == {[profile |-> pp, driver |-> d, platform_driver |-> sh[2],
             cpu_driver |-> sh[1]] :
               pp \in PowerProfile, d \in DriverNames, sh \in DriverShapes}

ProfileWithoutDrivers ==
    {x \in Profile : x.platform_driver = None /\ x.cpu_driver = None}

\* struct Action
Action == [name : {"trickle_charge"}, description : {"Trickle charge mode"},
           enabled : BOOLEAN]

\* Optional<String> of the PerformanceDegraded property
DegradedValues == {None, Some("lap-detected")}

ProfileLists == SeqsUpTo(Profile, MaxProfiles)
ActionLists == SeqsUpTo(Action, MaxActions)

-----------------------------------------------------------------------------
(* error.rs: enum PpdError, and the Result main() returns. *)

NoResult == [kind |-> "running", arg |-> ""]
OkResult == [kind |-> "Ok", arg |-> ""]
\* PpdError::DBusError, from the zbus::Error of the named proxy call
DBusError(op) == [kind |-> "DBusError", arg |-> op]
\* PpdError::InvalidProfile as set() builds it (main.rs:151): around the
\* String given to Set, not around the PowerProfile error.rs:19 declares.
InvalidProfile(profile) == [kind |-> "InvalidProfile", arg |-> profile]
InvalidConfig(msg) == [kind |-> "InvalidConfig", arg |-> msg]
Unimplemented(msg) == [kind |-> "Unimplemented", arg |-> msg]

-----------------------------------------------------------------------------
(* args.rs: enum Commands; "None" is a command line without a subcommand. *)

SimpleCommands == {"None", "List", "ListHolds", "ListActions", "Get",
                   "ConfigureAction", "QueryBatteryAware", "Launch"}

\* Strings given to `set <profile>`.
SetInputs == {"power-saver", "balanced", "performance", "turbo", "Performance"}

Commands ==
    [name : SimpleCommands, profile : {""}, enable : {FALSE}, disable : {FALSE}]
    \cup [name : {"Set"}, profile : SetInputs, enable : {FALSE},
          disable : {FALSE}]
    \cup [name : {"ConfigureBatteryAware"}, profile : {""},
          enable : BOOLEAN, disable : BOOLEAN]

\* The variant main.rs:57 matches to call watch().  enum Commands of args.rs
\* does not declare it, so no command line parses to it: it is no member of
\* Commands, and watch() is entered only by a direct call.
WatchCommand ==
    [name |-> "Watch", profile |-> "", enable |-> FALSE, disable |-> FALSE]

-----------------------------------------------------------------------------
(* Proxy calls: the log entry of a call and the remote exchange. *)

\* A call that returned `ret`, and a call that failed with a zbus::Error.
Call(op, arg, ret) == [op |-> op, arg |-> arg, ok |-> TRUE, ret |-> ret]
FailedCall(op, arg) == [op |-> op, arg |-> arg, ok |-> FALSE, ret |-> "Err"]

\* `?` on a failed call: main() returns the DBusError of the call.
Fail(op, arg) ==
    /\ calls' = Append(calls, FailedCall(op, arg))
    /\ result' = DBusError(op)
    /\ pc' = "done"

Println(line) == out' = Append(out, line)


-----------------------------------------------------------------------------
(* The state after Args::parse(): a command and a remote service. *)

UsesProfiles(c) == c.name \in {"None", "List", "Set"}
UsesActive(c) == c.name \in {"None", "List", "Get", "Watch"}
UsesDrivers(c) == c.name \in {"None", "List"}
UsesDegraded(c) == c.name \in {"None", "List"}
UsesBatteryAware(c) == c.name \in {"QueryBatteryAware", "ConfigureBatteryAware"}
UsesActions(c) == c.name = "ListActions"

\* The values of a remote property: all of them for a command that touches
\* the property, one of them for a command that never does.
Values(used, S, default) == IF used THEN S ELSE {default}

NoConv == [kind |-> "none", val |-> ""]
Pending == [ok |-> FALSE, val |-> "pending"]

LocalInit ==
    /\ result = NoResult
    /\ out = <<>>
    /\ calls = <<>>
    /\ changes = 0
    /\ removals = 0
    /\ switched = <<>>
    /\ current = "Balanced"
    /\ profiles = <<>>
    /\ degraded = ""
    /\ subscribed = FALSE
    /\ signal = <<>>
    /\ closed = FALSE
    /\ p = "Balanced"
    /\ delivered = <<>>

Init ==
    /\ cmd \in Commands
    /\ pc = "connect"
    /\ remoteActive \in Values(UsesActive(cmd), PowerProfile, "Balanced")
    /\ remoteProfiles \in Values(UsesProfiles(cmd), ProfileLists, <<>>)
    /\ UsesDrivers(cmd) \/ \A i \in DOMAIN remoteProfiles :
          remoteProfiles[i] \in ProfileWithoutDrivers
    /\ remoteDegraded \in Values(UsesDegraded(cmd), DegradedValues, None)
    /\ remoteBatteryAware \in Values(UsesBatteryAware(cmd), BOOLEAN, FALSE)
    /\ remoteActions \in Values(UsesActions(cmd), ActionLists, <<>>)
    /\ LocalInit
    /\ convIn = NoConv
    /\ convVal = Pending
    /\ convOut = None
    /\ convBack = Pending

-----------------------------------------------------------------------------
(* main.rs: main(). *)

\* let connection = Connection::system()?;
main_Connection ==
    /\ pc = "connect"
    /\ \/ /\ result' = DBusError("Connection::system")
          /\ pc' = "done"
       \/ /\ pc' = "proxy"
          /\ UNCHANGED result
    /\ UNCHANGED <<cmd, out, calls, remoteVars, extVars, listVars, watchVars,
                   convVars>>

\* let proxy = PpdProxyBlocking::new(&connection)?;
main_Proxy ==
    /\ pc = "proxy"
    /\ \/ /\ result' = DBusError("PpdProxyBlocking::new")
          /\ pc' = "done"
       \/ /\ pc' = "dispatch"
          /\ UNCHANGED result
    /\ UNCHANGED <<cmd, out, calls, remoteVars, extVars, listVars, watchVars,
                   convVars>>

\* Variant: one text for every command without implementation.
unimplemented_message_same(name) == "command"

\* The text of the Unimplemented error of a command without implementation.
unimplemented_message(name) ==
    CASE name = "ListHolds" -> "ListHolds command"
      [] name = "Launch" -> "Launch command"
      [] name = "ConfigureAction" -> "ConfigureAction command"

\* The function a command is dispatched to.
main_arm(name) ==
    CASE name = "Get" -> "print_profile"
      [] name = "List" -> "list"
      [] name = "Set" -> "set"
      [] name = "ListActions" -> "list_actions"
      [] name = "QueryBatteryAware" -> "query_battery_aware"
      [] name = "ConfigureBatteryAware" -> "configure_battery_aware"
      [] name = "Watch" -> "watch"
      [] name = "None" -> "list"

\* match cli.command { ... }
main_Match ==
    /\ pc = "dispatch"
    /\ IF cmd.name \in {"ListHolds", "Launch", "ConfigureAction"}
       THEN /\ result' = Unimplemented(unimplemented_message(cmd.name))
            /\ pc' = "done"
       ELSE /\ pc' = main_arm(cmd.name)
            /\ UNCHANGED result
    /\ UNCHANGED <<cmd, out, calls, remoteVars, extVars, listVars, watchVars,
                   convVars>>


-----------------------------------------------------------------------------
(* main.rs: print_profile(). *)

print_profile ==
    /\ pc = "print_profile"
    /\ \/ Fail("active_profile", "") /\ UNCHANGED out
       \/ /\ calls' = Append(calls, Call("active_profile", "", remoteActive))
          /\ Println(Display(remoteActive))
          /\ result' = OkResult
          /\ pc' = "done"
    /\ UNCHANGED <<cmd, remoteVars, extVars, listVars, watchVars, convVars>>

-----------------------------------------------------------------------------
(* main.rs: list(). *)

\* .as_ref().unwrap_or(&String::from("no")).to_string()
unwrap_or_no(opt) == IF opt = None THEN "no" ELSE opt[1]

\* let current = proxy.active_profile()?;
list_active_profile ==
    /\ pc = "list"
    /\ \/ Fail("active_profile", "") /\ UNCHANGED current
       \/ /\ calls' = Append(calls, Call("active_profile", "", remoteActive))
          /\ current' = remoteActive
          /\ pc' = "list_profiles"
          /\ UNCHANGED result
    /\ UNCHANGED <<cmd, out, remoteVars, extVars, profiles, degraded,
                   watchVars, convVars>>

\* let profiles = proxy.profiles()?;
list_profiles ==
    /\ pc = "list_profiles"
    /\ \/ Fail("profiles", "") /\ UNCHANGED profiles
       \/ /\ calls' = Append(calls, Call("profiles", "", remoteProfiles))
          /\ profiles' = remoteProfiles
          /\ pc' = "list_degraded"
          /\ UNCHANGED result
    /\ UNCHANGED <<cmd, out, remoteVars, extVars, current, degraded,
                   watchVars, convVars>>

\* Variant: the property is read only when a Performance entry is listed.
list_performance_degraded_lazy ==
    /\ pc = "list_degraded"
    /\ IF \E i \in DOMAIN profiles : profiles[i].profile = "Performance"
       THEN \/ Fail("performance_degraded", "") /\ UNCHANGED degraded
            \/ /\ calls' = Append(calls, Call("performance_degraded", "",
                                               remoteDegraded))
               /\ degraded' = unwrap_or_no(remoteDegraded)
               /\ pc' = "list_render"
               /\ UNCHANGED result
       ELSE /\ degraded' = "no"
            /\ pc' = "list_render"
            /\ UNCHANGED <<calls, result>>
    /\ UNCHANGED <<cmd, out, remoteVars, extVars, current, profiles,
                   watchVars, convVars>>

\* let degraded = proxy.performance_degraded()?...;
list_performance_degraded ==
    /\ pc = "list_degraded"
    /\ \/ Fail("performance_degraded", "") /\ UNCHANGED degraded
       \/ /\ calls' = Append(calls, Call("performance_degraded", "",
                                          remoteDegraded))
          /\ degraded' = unwrap_or_no(remoteDegraded)
          /\ pc' = "list_render"
          /\ UNCHANGED result
    /\ UNCHANGED <<cmd, out, remoteVars, extVars, current, profiles,
                   watchVars, convVars>>

\* Variant: the entries are printed in the order the proxy returned them.
list_order_forward(ps) == ps

\* profiles.into_iter().rev()
list_order(ps) == Reverse(ps)

\* let degraded_string = if profile.profile == "performance" { ... };
degraded_string(profile, deg) ==
    IF Display(profile.profile) = "performance" THEN Some(deg) ELSE None

\* let current_marker = if current == profile.profile { "*" } else { " " };
current_marker(cur, profile) == IF cur = profile.profile THEN "*" ELSE " "

OptLine(label, opt) == IF opt = None THEN <<>> ELSE <<label \o opt[1]>>

\* One iteration of the while loop: the lines of one profile.
list_entry(cur, profile, deg, more) ==
    <<current_marker(cur, profile) \o " " \o Display(profile.profile) \o ":">>
    \o OptLine("    CpuDriver:\t", profile.cpu_driver)
    \o OptLine("    PlatformDriver:\t", profile.platform_driver)
    \o OptLine("    Degraded:  ", degraded_string(profile, deg))
    \o (IF more THEN <<"">> ELSE <<>>)

\* while let Some(profile) = profiles_iter.next() { ... }
RECURSIVE list_loop(_, _, _)
list_loop(cur, profiles_iter, deg) ==
    IF profiles_iter = <<>> THEN <<>>
    ELSE list_entry(cur, Head(profiles_iter), deg, Tail(profiles_iter) # <<>>)
         \o list_loop(cur, Tail(profiles_iter), deg)

list_render ==
    /\ pc = "list_render"
    /\ out' = out \o list_loop(current, list_order(profiles), degraded)
    /\ result' = OkResult
    /\ pc' = "done"
    /\ UNCHANGED <<cmd, calls, remoteVars, extVars, listVars, watchVars,
                   convVars>>

-----------------------------------------------------------------------------
(* main.rs: set(). *)

\* Variant: every name PowerProfile knows, advertised or not.
profiles_names_known(ps) == {Display(pp) : pp \in PowerProfile}

\* Variant: the set collects the `driver` field instead of `profile`.
profiles_names_driver(ps) == {ps[i].driver : i \in DOMAIN ps}

\* proxy.profiles()?.iter().map(|x| x.profile.clone()).collect()
profiles_names(ps) == {Display(ps[i].profile) : i \in DOMAIN ps}

\* let profiles_names: HashSet<_> = ...; if profiles_names.contains(&profile)
set_profiles ==
    /\ pc = "set"
    /\ \/ Fail("profiles", "")
       \/ /\ calls' = Append(calls, Call("profiles", "", remoteProfiles))
          /\ IF cmd.profile \in profiles_names(remoteProfiles)
             THEN /\ pc' = "set_active_profile"
                  /\ UNCHANGED result
             ELSE /\ result' = InvalidProfile(cmd.profile)
                  /\ pc' = "done"
    /\ UNCHANGED <<cmd, out, remoteVars, extVars, listVars, watchVars,
                   convVars>>

\* The service takes the written string as its active profile.
RemoteWriteActive(name) ==
    /\ remoteActive' = IF try_from(name).ok THEN try_from(name).val
                       ELSE remoteActive
    /\ UNCHANGED <<remoteProfiles, remoteDegraded, remoteBatteryAware,
                   remoteActions>>

\* Variant: the profile is written only if the service still advertises it.
set_active_profile_rechecked ==
    /\ pc = "set_active_profile"
    /\ IF cmd.profile \in profiles_names(remoteProfiles)
       THEN \/ Fail("set_active_profile", cmd.profile) /\ UNCHANGED remoteVars
            \/ /\ calls' = Append(calls, Call("set_active_profile",
                                               cmd.profile, "()"))
               /\ RemoteWriteActive(cmd.profile)
               /\ result' = OkResult
               /\ pc' = "done"
       ELSE /\ result' = InvalidProfile(cmd.profile)
            /\ pc' = "done"
            /\ UNCHANGED <<calls, remoteVars>>
    /\ UNCHANGED <<cmd, out, extVars, listVars, watchVars, convVars>>

\* proxy.set_active_profile(profile)?; Ok(())
set_active_profile ==
    /\ pc = "set_active_profile"
    /\ \/ Fail("set_active_profile", cmd.profile) /\ UNCHANGED remoteVars
       \/ /\ calls' = Append(calls, Call("set_active_profile", cmd.profile, "()"))
          /\ RemoteWriteActive(cmd.profile)
          /\ result' = OkResult
          /\ pc' = "done"
    /\ UNCHANGED <<cmd, out, extVars, listVars, watchVars, convVars>>


-----------------------------------------------------------------------------
(* main.rs: watch(). *)

\* println!("{}", proxy.active_profile()?);
watch_active_profile ==
    /\ pc = "watch"
    /\ \/ Fail("active_profile", "") /\ UNCHANGED <<out, current>>
       \/ /\ calls' = Append(calls, Call("active_profile", "", remoteActive))
          /\ current' = remoteActive
          /\ Println(Display(remoteActive))
          /\ pc' = "watch_receive"
          /\ UNCHANGED result
    /\ UNCHANGED <<cmd, remoteVars, extVars, profiles, degraded, watchVars,
                   convVars>>

\* let signal = proxy.receive_active_profile_changed();
watch_receive_active_profile_changed ==
    /\ pc = "watch_receive"
    /\ calls' = Append(calls, Call("receive_active_profile_changed", "", "()"))
    /\ subscribed' = TRUE
    /\ signal' = <<>>
    /\ pc' = "watch_next"
    /\ UNCHANGED <<cmd, result, out, remoteVars, extVars, listVars, closed, p,
                   delivered, convVars>>

\* for p in signal: the iterator blocks until it has an element or has ended.
watch_next ==
    /\ pc = "watch_next"
    /\ \/ /\ signal # <<>>
          /\ p' = Head(signal)
          /\ signal' = Tail(signal)
          /\ delivered' = Append(delivered, Head(signal))
          /\ pc' = "watch_get"
          /\ UNCHANGED result
       \/ /\ signal = <<>>
          /\ closed
          /\ result' = OkResult
          /\ pc' = "done"
          /\ UNCHANGED <<p, signal, delivered>>
    /\ UNCHANGED <<cmd, out, calls, remoteVars, extVars, listVars, subscribed,
                   closed, convVars>>

\* Variant: an element equal to the line printed last is not printed again.
watch_line_changed(lines, name) ==
    IF lines # <<>> /\ lines[Len(lines)] = name THEN lines
    ELSE Append(lines, name)

\* The line the loop body prints for an element.
watch_line(lines, name) == Append(lines, name)

\* let name = p.get()?; println!("{name}");
watch_get ==
    /\ pc = "watch_get"
    /\ \/ /\ result' = DBusError("get")
          /\ pc' = "done"
          /\ UNCHANGED out
       \/ /\ out' = watch_line(out, Display(p))
          /\ pc' = "watch_next"
          /\ UNCHANGED result
    /\ UNCHANGED <<cmd, calls, remoteVars, extVars, listVars, watchVars,
                   convVars>>

-----------------------------------------------------------------------------
(* main.rs: query_battery_aware(), list_actions(). *)

\* Display of bool
bool_to_string(b) == IF b THEN "true" ELSE "false"

query_battery_aware ==
    /\ pc = "query_battery_aware"
    /\ \/ Fail("battery_aware", "") /\ UNCHANGED out
       \/ /\ calls' = Append(calls, Call("battery_aware", "", remoteBatteryAware))
          /\ Println("Dynamic changes from charger and battery events: "
                     \o bool_to_string(remoteBatteryAware))
          /\ result' = OkResult
          /\ pc' = "done"
    /\ UNCHANGED <<cmd, remoteVars, extVars, listVars, watchVars, convVars>>

\* for action in proxy.actions_info()? { ... }
RECURSIVE actions_lines(_)
actions_lines(as) ==
    IF as = <<>> THEN <<>>
    ELSE <<"Name: " \o Head(as).name,
           "Description: " \o Head(as).description,
           "Enabled: " \o bool_to_string(Head(as).enabled)>>
         \o actions_lines(Tail(as))

list_actions ==
    /\ pc = "list_actions"
    /\ \/ Fail("actions_info", "") /\ UNCHANGED out
       \/ /\ calls' = Append(calls, Call("actions_info", "", remoteActions))
          /\ out' = out \o actions_lines(remoteActions)
          /\ result' = OkResult
          /\ pc' = "done"
    /\ UNCHANGED <<cmd, remoteVars, extVars, listVars, watchVars, convVars>>

-----------------------------------------------------------------------------
(* main.rs: configure_battery_aware(). *)

\* Variant: the check for neither flag is missing.
configure_battery_aware_check_both(enable, disable) ==
    IF enable /\ disable THEN Some("can't set both enable and disable")
    ELSE None

\* The checks before the write: the error message, or None to go on.
configure_battery_aware_check(enable, disable) ==
    IF enable /\ disable THEN Some("can't set both enable and disable")
    ELSE IF ~(enable \/ disable) THEN Some("enable or disable is required")
    ELSE None

configure_battery_aware ==
    /\ pc = "configure_battery_aware"
    /\ LET check == configure_battery_aware_check(cmd.enable, cmd.disable) IN
       IF check # None
       THEN /\ result' = InvalidConfig(check[1])
            /\ pc' = "done"
            /\ UNCHANGED <<calls, remoteVars>>
       ELSE \/ Fail("set_battery_aware", cmd.enable) /\ UNCHANGED remoteVars
            \/ /\ calls' = Append(calls, Call("set_battery_aware", cmd.enable, "()"))
               /\ remoteBatteryAware' = cmd.enable
               /\ UNCHANGED <<remoteActive, remoteProfiles, remoteDegraded,
                              remoteActions>>
               /\ result' = OkResult
               /\ pc' = "done"
    /\ UNCHANGED <<cmd, out, extVars, listVars, watchVars, convVars>>

-----------------------------------------------------------------------------
(* The other actors on the bus, while the run is going on. *)

\* The run can still see the active profile: a read of it lies ahead, or
\* watch() is under way.
ObservesActive ==
    /\ UsesActive(cmd)
    /\ pc \in {"connect", "proxy", "dispatch", "print_profile", "list",
               "watch", "watch_receive", "watch_next", "watch_get"}

\* The run can still see the profile list: a read of it lies ahead, or set()
\* is between its read and its write.
ObservesProfiles ==
    /\ UsesProfiles(cmd)
    /\ pc \in {"connect", "proxy", "dispatch", "list", "list_profiles", "set",
               "set_active_profile"}

\* Another actor switches the active profile; an open subscription is told.
\* Other actors are followed for as long as the run can see what they do.
ExtSetActive ==
    /\ ObservesActive
    /\ changes < MaxChanges
    /\ \E q \in PowerProfile \ {remoteActive} :
          /\ remoteActive' = q
          /\ signal' = IF subscribed /\ ~closed THEN Append(signal, q)
                       ELSE signal
          /\ switched' = IF pc \in {"watch_receive", "watch_next", "watch_get"}
                         THEN Append(switched, q)
                         ELSE switched
    /\ changes' = changes + 1
    /\ UNCHANGED <<cmd, pc, result, out, calls, remoteProfiles, remoteDegraded,
                   remoteBatteryAware, remoteActions, removals, listVars,
                   subscribed, closed, p, delivered, convVars>>

\* The service stops advertising one of its profiles.
ExtRemoveProfile ==
    /\ ObservesProfiles
    /\ removals < MaxRemovals
    /\ \E i \in DOMAIN remoteProfiles :
          remoteProfiles' = RemoveAt(remoteProfiles, i)
    /\ removals' = removals + 1
    /\ UNCHANGED <<cmd, pc, result, out, calls, remoteActive, remoteDegraded,
                   remoteBatteryAware, remoteActions, changes, switched,
                   listVars, watchVars, convVars>>

\* The stream behind the subscription ends (the connection is closed).
ExtClose ==
    /\ pc # "done"
    /\ subscribed
    /\ ~closed
    /\ closed' = TRUE
    /\ UNCHANGED <<cmd, pc, result, out, calls, remoteVars, extVars, listVars,
                   subscribed, signal, p, delivered, convVars>>

-----------------------------------------------------------------------------

Next ==
    \/ main_Connection
    \/ main_Proxy
    \/ main_Match
    \/ print_profile
    \/ list_active_profile
    \/ list_profiles
    \/ list_performance_degraded
    \/ list_render
    \/ set_profiles
    \/ set_active_profile
    \/ query_battery_aware
    \/ list_actions
    \/ configure_battery_aware
    \/ ExtSetActive
    \/ ExtRemoveProfile

Spec == Init /\ [][Next]_vars

-----------------------------------------------------------------------------
(* main.rs: watch() called with a proxy, the service at any active profile. *)

InitWatch ==
    /\ cmd = WatchCommand
    /\ pc = "watch"
    /\ remoteActive \in PowerProfile
    /\ remoteProfiles = <<>>
    /\ remoteDegraded = None
    /\ remoteBatteryAware = FALSE
    /\ remoteActions = <<>>
    /\ LocalInit
    /\ convIn = NoConv
    /\ convVal = Pending
    /\ convOut = None
    /\ convBack = Pending

NextWatch ==
    \/ watch_active_profile
    \/ watch_receive_active_profile_changed
    \/ watch_next
    \/ watch_get
    \/ ExtSetActive
    \/ ExtClose

SpecWatch == InitWatch /\ [][NextWatch]_vars


-----------------------------------------------------------------------------
(* lib.rs: the string conversions of PowerProfile on their own, as the     *)
(* tests of lib.rs use them: a string is parsed, a profile is formatted,   *)
(* and the formatted string is parsed back.                                *)

ConvBases == {"power-saver", "balanced", "performance", "turbo", "",
              "Balanced", "PowerSaver", "Performance", "power_saver",
              "powersaver", "BALANCED", "power-save", "perf"}
ConvPrefixes == {"", " "}
ConvSuffixes == {"", " ", "\n", "s"}
ConvStrings ==
    {pre \o b \o suf : pre \in ConvPrefixes, b \in ConvBases,
                       suf \in ConvSuffixes}

ConvInputs == [kind : {"String"}, val : ConvStrings]
              \cup [kind : {"PowerProfile"}, val : PowerProfile]

InitConv ==
    /\ cmd = [name |-> "None", profile |-> "", enable |-> FALSE,
              disable |-> FALSE]
    /\ pc = "conv"
    /\ remoteActive = "Balanced"
    /\ remoteProfiles = <<>>
    /\ remoteDegraded = None
    /\ remoteBatteryAware = FALSE
    /\ remoteActions = <<>>
    /\ LocalInit
    /\ convIn \in ConvInputs
    /\ convVal = Pending
    /\ convOut = None
    /\ convBack = Pending

\* PowerProfile::try_from(s)
conv_try_from ==
    /\ pc = "conv"
    /\ convIn.kind = "String"
    /\ convVal = Pending
    /\ convVal' = try_from(convIn.val)
    /\ UNCHANGED <<cmd, pc, result, out, calls, remoteVars, extVars, listVars,
                   watchVars, convIn, convOut, convBack>>

\* p.to_string(), of a profile given or parsed
conv_to_string ==
    /\ pc = "conv"
    /\ convOut = None
    /\ \/ /\ convIn.kind = "PowerProfile"
          /\ convOut' = Some(Display(convIn.val))
       \/ /\ convVal.ok
          /\ convOut' = Some(Display(convVal.val))
    /\ UNCHANGED <<cmd, pc, result, out, calls, remoteVars, extVars, listVars,
                   watchVars, convIn, convVal, convBack>>

\* PowerProfile::try_from(p.to_string())
conv_back ==
    /\ pc = "conv"
    /\ convOut # None
    /\ convBack = Pending
    /\ convBack' = try_from(convOut[1])
    /\ UNCHANGED <<cmd, pc, result, out, calls, remoteVars, extVars, listVars,
                   watchVars, convIn, convVal, convOut>>

NextConv ==
    \/ conv_try_from
    \/ conv_to_string
    \/ conv_back

SpecConv == InitConv /\ [][NextConv]_vars


-----------------------------------------------------------------------------
(* Properties of the commands.                                             *)

\* The command function has been entered: the connection and the proxy exist.
Dispatched ==
    /\ pc \notin {"connect", "proxy", "dispatch", "conv"}
    /\ ~(result.kind = "DBusError"
         /\ result.arg \in {"Connection::system", "PpdProxyBlocking::new"})

CallsOf(op) == SelectSeq(calls, LAMBDA c : c.op = op)

\* The profile names of a list the proxy returned.
NamesIn(list) == {Display(list[i].profile) : i \in DOMAIN list}

\* The call by which set() fetched the profile list, once it has returned.
SetListReturned ==
    /\ cmd.name = "Set"
    /\ calls # <<>>
    /\ calls[1].op = "profiles"
    /\ calls[1].ok

\* C1: when the name given to Set is not the name of any profile in the list
\* its profiles() call returned, Set ends with InvalidProfile of that name and
\* the run never issues a set_active_profile call.
C1_SetRejectsUnlistedProfile ==
    (SetListReturned /\ cmd.profile \notin NamesIn(calls[1].ret))
        => /\ pc = "done"
           /\ result = InvalidProfile(cmd.profile)
           /\ CallsOf("set_active_profile") = <<>>

\* A recognised name that the service does not advertise is rejected.
C1_Witness ==
    /\ SetListReturned
    /\ calls[1].ret # <<>>
    /\ cmd.profile = "performance"
    /\ cmd.profile \notin NamesIn(calls[1].ret)
    /\ result = InvalidProfile("performance")

\* C2: when the name given to Set is the name of a profile in the list its
\* profiles() call returned, Set issues exactly one set_active_profile call,
\* with the requested profile, as the call right after the list was fetched
\* and checked; no write is ever issued before the list has been returned
\* with the name in it, and never a second one.
C2_SetWritesListedProfileOnce ==
    cmd.name = "Set" =>
        /\ \A i \in DOMAIN calls :
              calls[i].op = "set_active_profile"
                  => /\ i = 2
                     /\ SetListReturned
                     /\ cmd.profile \in NamesIn(calls[1].ret)
                     /\ calls[i].arg = cmd.profile
        /\ (SetListReturned /\ cmd.profile \in NamesIn(calls[1].ret))
              => /\ pc \in {"set_active_profile", "done"}
                 /\ pc = "set_active_profile" => Len(calls) = 1
                 /\ pc = "done"
                       => /\ Len(calls) = 2
                          /\ calls[2].op = "set_active_profile"
                          /\ calls[2].arg = cmd.profile
                          /\ result = IF calls[2].ok THEN OkResult
                                      ELSE DBusError("set_active_profile")

\* Set("balanced") with balanced advertised: one write of balanced, success.
C2_Witness ==
    /\ SetListReturned
    /\ cmd.profile = "balanced"
    /\ pc = "done"
    /\ result = OkResult
    /\ Len(calls) = 2
    /\ calls[2] = Call("set_active_profile", "balanced", "()")
    /\ remoteActive = "Balanced"

\* C3: Set parses its input first: for a string that is none of the three
\* profile names Set fails with InvalidProfile whatever the proxy would
\* return, also when the profiles() read fails, and issues no write.
C3_SetParsesInputFirst ==
    (cmd.name = "Set" /\ Dispatched /\ pc = "done" /\ ~try_from(cmd.profile).ok)
        => /\ result = InvalidProfile(cmd.profile)
           /\ CallsOf("set_active_profile") = <<>>

\* C4: ConfigureBatteryAware with both flags or neither fails with
\* InvalidConfig and issues no set_battery_aware call; with exactly one flag
\* it issues exactly one set_battery_aware call, whose argument is `enable`.
C4_ConfigureBatteryAware ==
    (cmd.name = "ConfigureBatteryAware" /\ Dispatched)
        => /\ Len(calls) <= 1
           /\ pc = "done" =>
                IF cmd.enable = cmd.disable
                THEN /\ result.kind = "InvalidConfig"
                     /\ calls = <<>>
                ELSE /\ Len(calls) = 1
                     /\ calls[1].op = "set_battery_aware"
                     /\ calls[1].arg = cmd.enable
                     /\ result = IF calls[1].ok THEN OkResult
                                 ELSE DBusError("set_battery_aware")

\* --disable alone: one write of false, which the service takes.
C4_Witness ==
    /\ cmd.name = "ConfigureBatteryAware"
    /\ ~cmd.enable /\ cmd.disable
    /\ pc = "done"
    /\ result = OkResult
    /\ calls = <<Call("set_battery_aware", FALSE, "()")>>
    /\ remoteBatteryAware = FALSE


\* list() has read the three properties and printed the profiles.
ListRendered ==
    /\ cmd.name \in {"List", "None"}
    /\ pc = "done"
    /\ result = OkResult

HeaderLines ==
    {m \o " " \o Display(pp) \o ":" : m \in {"*", " "}, pp \in PowerProfile}

DegradedLines ==
    {"    Degraded:  " \o d :
        d \in {"no"} \cup {v[1] : v \in DegradedValues \ {None}}}

\* The position in `out` of the k-th header line, hp the header positions.
Pos(hp, k) == CHOOSE i \in hp : Cardinality({j \in hp : j <= i}) = k

\* The positions of the lines printed under the header at position h.
EntryLines(hp, h) ==
    {j \in DOMAIN out : j > h /\ \A i \in hp : i > h => j < i}

\* C5: List prints one header line per profile the proxy returned, in the
\* reverse of the returned order; the header of an entry starts with `*` when
\* the entry is the active profile the proxy returned and with a space
\* otherwise; and a Degraded line is printed under an entry exactly when the
\* entry is the Performance profile.
C5_ListRendersReversed ==
    ListRendered =>
        LET act == calls[1].ret
            ps == calls[2].ret
            n == Len(ps)
            hp == {i \in DOMAIN out : out[i] \in HeaderLines}
        IN /\ Cardinality(hp) = n
           /\ \A k \in 1..n :
                LET entry == ps[n + 1 - k]
                    h == Pos(hp, k)
                IN /\ out[h] = (IF entry.profile = act THEN "*" ELSE " ")
                               \o " " \o Display(entry.profile) \o ":"
                   /\ (\E j \in EntryLines(hp, h) : out[j] \in DegradedLines)
                         <=> entry.profile = "Performance"

\* [balanced, performance] with balanced active: performance is printed
\* first, unmarked and with its Degraded line, then balanced with the `*`.
C5_Witness ==
    /\ ListRendered
    /\ Len(calls[2].ret) = 2
    /\ calls[1].ret = "Balanced"
    /\ calls[2].ret[1].profile = "Balanced"
    /\ calls[2].ret[2].profile = "Performance"
    /\ out[1] = "  performance:"
    /\ \E i \in DOMAIN out : out[i] = "* balanced:"
    /\ \E i \in DOMAIN out : out[i] = "    Degraded:  no"

\* watch() has printed the profile it read at start.
WatchStarted ==
    /\ cmd.name = "Watch"
    /\ calls # <<>>
    /\ calls[1].op = "active_profile"
    /\ calls[1].ok

\* The elements of the subscription whose line has been printed: all that
\* were delivered, but the last one while its value is still being fetched
\* or when fetching it failed.
Printed ==
    IF pc = "watch_get" \/ (pc = "done" /\ result = DBusError("get"))
    THEN SubSeq(delivered, 1, Len(delivered) - 1)
    ELSE delivered

\* C6: Watch prints the active profile read at start once and first, then
\* one line per element the subscription delivered, in the order of delivery,
\* none skipped, duplicated or reordered; and Watch ends only with a remote
\* error or when the subscription has ended, never on its own.
C6_WatchPrintsEveryElement ==
    cmd.name = "Watch" =>
        /\ ~WatchStarted => out = <<>> /\ delivered = <<>>
        /\ WatchStarted =>
              out = <<Display(calls[1].ret)>>
                    \o [i \in 1..Len(Printed) |-> Display(Printed[i])]
        /\ (pc = "done" /\ Dispatched) => (result.kind = "DBusError" \/ closed)
        /\ (pc = "done" /\ result = OkResult) => signal = <<>>

\* balanced at start, then performance and balanced again are delivered.
C6_Witness ==
    /\ WatchStarted
    /\ pc = "watch_next"
    /\ ~closed
    /\ delivered = <<"Performance", "Balanced">>
    /\ out = <<"balanced", "performance", "balanced">>

\* C7: ListHolds, ConfigureAction and Launch each end with the Unimplemented
\* error, with a text that none of the other two carries, and neither call
\* the proxy nor print anything.
C7_UnimplementedCommands ==
    cmd.name \in {"ListHolds", "ConfigureAction", "Launch"} =>
        /\ calls = <<>>
        /\ out = <<>>
        /\ (pc = "done" /\ Dispatched) =>
              /\ result.kind = "Unimplemented"
              /\ \A other \in {"ListHolds", "ConfigureAction", "Launch"} :
                    (result.arg = unimplemented_message(other))
                        <=> other = cmd.name

\* Launch has ended with its own Unimplemented error.
C7_Witness ==
    /\ cmd.name = "Launch"
    /\ pc = "done"
    /\ result = Unimplemented("Launch command")


ProfileNames == {"power-saver", "balanced", "performance"}

\* C8: try_from succeeds exactly on "power-saver", "balanced" and
\* "performance"; parsing one of them and formatting the profile gives the
\* string back; and formatting a profile gives one of the three names, which
\* parses back to the profile.
C8_ConversionRoundTrip ==
    /\ (convIn.kind = "String" /\ convVal # Pending)
          => (convVal.ok <=> convIn.val \in ProfileNames)
    /\ (convIn.kind = "String" /\ convOut # None) => convOut[1] = convIn.val
    /\ (convIn.kind = "PowerProfile" /\ convOut # None)
          => convOut[1] \in ProfileNames
    /\ (convIn.kind = "PowerProfile" /\ convBack # Pending)
          => convBack = Ok(convIn.val)
    /\ (convIn.kind = "String" /\ convBack # Pending) => convBack = convVal

\* "power-saver" has been parsed, formatted and parsed back.
C8_Witness ==
    /\ convIn = [kind |-> "String", val |-> "power-saver"]
    /\ convVal = Ok("PowerSaver")
    /\ convOut = Some("power-saver")
    /\ convBack = Ok("PowerSaver")

\* list() has been returned a profile list.
ListProfilesReturned ==
    /\ cmd.name \in {"List", "None"}
    /\ Len(calls) >= 2
    /\ calls[2].op = "profiles"
    /\ calls[2].ok

HasPerformance(list) == \E i \in DOMAIN list : list[i].profile = "Performance"

\* C9 as stated: the degraded reason is fetched only for the Performance
\* profile: a list without a Performance entry leads to no
\* performance_degraded call, so that read cannot make List fail; with
\* Performance listed the read is issued once and an absent value is printed
\* as "no".
C9_DegradedReadOnlyForPerformance ==
    ListProfilesReturned =>
        IF HasPerformance(calls[2].ret)
        THEN pc = "done" =>
                /\ Len(CallsOf("performance_degraded")) = 1
                /\ (calls[3].ok /\ calls[3].ret = None)
                      => \E i \in DOMAIN out : out[i] = "    Degraded:  no"
        ELSE /\ CallsOf("performance_degraded") = <<>>
             /\ result # DBusError("performance_degraded")

\* C9 as amended: once the profile list has been returned, List reads the
\* degraded reason exactly once, before it prints anything and whether or not
\* a Performance entry is listed; when that read fails List fails with its
\* transport error and prints nothing; the value read is printed only under
\* Performance entries, and an absent value is printed as "no".
C9_DegradedReadOnEveryList ==
    ListProfilesReturned =>
        /\ pc \in {"list_degraded", "list_render", "done"}
        /\ pc = "list_degraded" => Len(calls) = 2 /\ out = <<>>
        /\ pc # "list_degraded" =>
              /\ Len(calls) = 3
              /\ calls[3].op = "performance_degraded"
              /\ ~calls[3].ok =>
                    /\ pc = "done"
                    /\ result = DBusError("performance_degraded")
                    /\ out = <<>>
              /\ (calls[3].ok /\ pc = "done") =>
                    LET ps == calls[2].ret
                        text == IF calls[3].ret = None THEN "no"
                                ELSE calls[3].ret[1]
                        dl == {i \in DOMAIN out : out[i] \in DegradedLines}
                    IN /\ result = OkResult
                       /\ \A i \in dl : out[i] = "    Degraded:  " \o text
                       /\ Cardinality(dl) =
                            Cardinality({i \in DOMAIN ps :
                                            ps[i].profile = "Performance"})

\* A list with no Performance entry, and List failed on the degraded read.
C9_Witness ==
    /\ ListProfilesReturned
    /\ calls[2].ret # <<>>
    /\ ~HasPerformance(calls[2].ret)
    /\ Len(calls) = 3
    /\ calls[3] = FailedCall("performance_degraded", "")
    /\ pc = "done"
    /\ result = DBusError("performance_degraded")
    /\ out = <<>>

\* C10: the membership check and the write of Set are two proxy calls with
\* nothing in between: Set reads the profile list at most once, and when the
\* list it read has the target and the service has stopped advertising the
\* target by the time Set ends, Set has still issued the write of the target,
\* and returns success when the write went through.
C10_SetWritesAfterRemoval ==
    cmd.name = "Set" =>
        /\ Len(CallsOf("profiles")) <= 1
        /\ ( /\ pc = "done"
             /\ SetListReturned
             /\ cmd.profile \in NamesIn(calls[1].ret)
             /\ cmd.profile \notin NamesIn(remoteProfiles) )
              => /\ Len(calls) = 2
                 /\ calls[2].op = "set_active_profile"
                 /\ calls[2].arg = cmd.profile
                 /\ calls[2].ok => result = OkResult

\* The target was listed at the read, another actor removed it, and Set
\* wrote it and succeeded.
C10_Witness ==
    /\ SetListReturned
    /\ cmd.profile \in NamesIn(calls[1].ret)
    /\ removals > 0
    /\ cmd.profile \notin NamesIn(remoteProfiles)
    /\ pc = "done"
    /\ Len(calls) = 2
    /\ calls[2] = Call("set_active_profile", cmd.profile, "()")
    /\ result = OkResult

\* watch() waits for the next element with nothing queued: every element
\* delivered so far has been printed, and the stream is open.
WatchIdle ==
    /\ cmd.name = "Watch"
    /\ pc = "watch_next"
    /\ signal = <<>>
    /\ ~closed

\* C11: Watch loses no change made after its initial read: whenever Watch
\* waits with nothing queued, it has printed the profile it read at start and
\* then every profile another actor has switched to since that read, in
\* order, also one switched to before the subscription was created; so the
\* line printed last is the remote active profile.
C11_WatchLosesNoChange ==
    WatchIdle =>
        /\ out = <<Display(calls[1].ret)>>
                 \o [i \in 1..Len(switched) |-> Display(switched[i])]
        /\ out[Len(out)] = Display(remoteActive)

====
